---- MODULE Spec2Model ----
\* Model of src/activities/recentmessages.js: the "recent messages" activity
\* of the Webex connector.  One invocation of the exported handler is modelled
\* as a state machine whose steps are the handler's four await points
\* (GET /rooms, the per-room GET /messages fan-out, GET /people/me and the
\* deduplicated GET /people/<id> fan-out).  Each action is the arrival of the
\* awaited result together with all the synchronous code that follows it.
\*
\* Representation of JavaScript values
\*   - an optional value is a sequence of length at most one: None is
\*     "undefined", Some(x) is the value x;
\*   - a string that the code splits into words (room titles, display names)
\*     is the sequence of its space-separated words, a word is the sequence of
\*     its characters;
\*   - a message text is the sequence of its tokens, each token a record
\*     [styled, word]; the empty sequence is the empty string;
\*   - raw.html is kept as the list of names that the spark-mention regular
\*     expression of matchMentions extracts from it;
\*   - timestamps are integers (hours), the clock is read once per invocation.
EXTENDS Integers, Sequences, FiniteSets, TLC

VARIABLES
    pc,                \* position of the handler: the await it is suspended at
    now,               \* wall clock read by isRecent
    srvRooms,          \* server side: the room list GET /rooms answers with
    srvMsgs,           \* server side: per room id, the list GET /messages answers with
    roomsResponse,     \* const roomsResponse
    rooms,             \* const rooms (sorted in place)
    messagePromises,   \* room ids a message fetch was issued for, in order
    messagesResponses, \* const messagesResponses
    filteredMessages,  \* const filteredMessages
    me,                \* const me
    data,              \* const data (the feed under construction)
    userPromises,      \* keys of the Map userPromises, in insertion order
    users,             \* const users
    Data,              \* activity.Response.Data as assigned by the handler
    ErrorCode          \* activity.Response.ErrorCode

vars == <<pc, now, srvRooms, srvMsgs, roomsResponse, rooms, messagePromises,
          messagesResponses, filteredMessages, me, data, userPromises, users,
          Data, ErrorCode>>

\* ---------------------------------------------------------------- bounds
MaxRooms == 3          \* rooms in the room-selection worlds
MaxStamp == 4          \* timestamps range over 1..MaxStamp
MaxFilterLen == 3      \* messages per room in the recency-filter worlds
MaxMsgs == 5           \* messages per room in the item-construction worlds
MaxAuthoredMsgs == 3   \* messages per room in the enrichment worlds

\* ---------------------------------------------------------------- constants
Lookback == 1200       \* now.getHours() - 1200

\* ---------------------------------------------------------------- values
None == <<>>
Some(x) == <<x>>
NoVal == "undefined"
Falsy(s) == s = NoVal \/ s = ""

SeqsUpTo(S, n) == UNION {[1..k -> S] : k \in 0..n}

StartClock == Lookback + 2
Recent == MaxStamp

NameAl == << <<"A", "l">> >>
NameBob == << <<"B", "o", "b">> >>
NameCal == << <<"C", "a", "l">>, <<"S", "t">> >>
TitleTeam == << <<"T", "e", "a", "m">>, <<"X">> >>
You == << <<"Y", "o", "u">> >>

PersonIds == {"alice", "bob", "carol"}
Caller == "alice"

\* the people the server knows; carol has no avatar
People ==
    [p \in PersonIds |->
        CASE p = "alice" -> [id |-> p, displayName |-> NameAl, avatar |-> "al.png"]
          [] p = "bob" -> [id |-> p, displayName |-> NameBob, avatar |-> "bob.png"]
          [] OTHER -> [id |-> p, displayName |-> NameCal, avatar |-> NoVal]]

ErrorBody == [id |-> NoVal, displayName |-> None, avatar |-> NoVal]
NoResponse == [statusCode |-> 0, body |-> ErrorBody]

Tok(w) == [styled |-> FALSE, word |-> w]
WordHi == <<"h", "i">>

\* the name a mention of person p is written with: the first word of the display name
MentionName(p) == People[p].displayName[1]

Room(id, type, title, lastActivity) ==
    [id |-> id, type |-> type, title |-> title, lastActivity |-> lastActivity]

\* A server message.  mentioned is an optional list of person ids; a message
\* with text carries its mention names in front of the text and, when it
\* mentions anybody, an html body with one spark-mention tag per mention.
Msg(room, idx, created, author, mentioned, hasText) ==
    LET ids == IF mentioned = None THEN <<>> ELSE mentioned[1]
        names == [k \in 1..Len(ids) |-> MentionName(ids[k])]
    IN [id |-> <<room.id, idx>>,
        roomId |-> room.id,
        roomType |-> room.type,
        text |-> IF hasText THEN [k \in 1..Len(names) |-> Tok(names[k])] \o <<Tok(WordHi)>>
                 ELSE <<>>,
        html |-> IF hasText /\ Len(ids) > 0 THEN Some(names) ELSE None,
        created |-> created,
        personId |-> author,
        mentionedPeople |-> mentioned]

EmptyFeed == [messages |-> [count |-> 0, items |-> <<>>],
              mentions |-> [count |-> 0, items |-> <<>>]]

\* ---------------------------------------------------------------- collaborators
\* $.isErrorResponse(activity, response): true for a response that is not a
\* success; it then records the response's status as the activity's error code
StatusOf(response) == response.statusCode

isErrorResponse(response) == StatusOf(response) # 200

\* $.handleError(activity, error): reports the exception as the activity's error
handleError ==
    /\ pc' = "done"
    /\ ErrorCode' = 500
    /\ UNCHANGED Data

\* ---------------------------------------------------------------- room selection
\* rooms.sort((a, b) => a > b ? -1 : (a < b ? 1 : 0)) on lastActivity: newest
\* first, equal timestamps keep their relative order
RECURSIVE InsertRoom(_, _)
InsertRoom(r, s) ==
    IF s = <<>> THEN <<r>>
    ELSE IF Head(s).lastActivity >= r.lastActivity
         THEN <<Head(s)>> \o InsertRoom(r, Tail(s))
         ELSE <<r>> \o s

RECURSIVE SortRoomsFrom(_, _)
SortRoomsFrom(s, n) ==
    IF n = 0 THEN <<>> ELSE InsertRoom(s[n], SortRoomsFrom(s, n - 1))

\* mutant: the list is scanned in the order the server returned it
SortRoomsSkipped(s) == s

SortRooms(s) == SortRoomsFrom(s, Len(s))

isRecent(date, clock) == date > clock - Lookback

\* the loop of lines 29-35: one fetch per room, up to the first room that is not recent
RECURSIVE SelectRooms(_, _, _)
SelectRooms(rs, i, clock) ==
    IF i > Len(rs) \/ ~isRecent(rs[i].lastActivity, clock) THEN <<>>
    ELSE <<rs[i].id>> \o SelectRooms(rs, i + 1, clock)

\* ---------------------------------------------------------------- recency filter
RECURSIVE FilterFrom(_, _, _)
FilterFrom(messages, j, clock) ==
    IF j > Len(messages) THEN <<>>
    ELSE IF isRecent(messages[j].created, clock)
         THEN <<messages[j]>> \o FilterFrom(messages, j + 1, clock)
         ELSE <<>>

\* mutant: every recent message is kept, the scan does not stop at the first old one
filterMessagesNoBreak(messages, clock) ==
    SelectSeq(messages, LAMBDA m : isRecent(m.created, clock))

filterMessagesByTime(messages, clock) == FilterFrom(messages, 1, clock)

\* mutant: only the first response is checked
FirstErrorHeadOnly(responses, i) ==
    IF i <= Len(responses) /\ i = 1 /\ isErrorResponse(responses[i]) THEN i ELSE 0

\* the loop of lines 44-49: index of the first error response, 0 when there is none
RECURSIVE FirstError(_, _)
FirstError(responses, i) ==
    IF i > Len(responses) THEN 0
    ELSE IF isErrorResponse(responses[i]) THEN i
    ELSE FirstError(responses, i + 1)

\* filteredMessages as the loop leaves it: one entry per response before the first error
FilterResponses(responses, clock) ==
    LET e == FirstError(responses, 1)
        n == IF e = 0 THEN Len(responses) ELSE e - 1
    IN [i \in 1..n |-> filterMessagesByTime(responses[i].body, clock)]

\* ---------------------------------------------------------------- item construction
constructItem(raw) ==
    [id |-> raw.id,
     title |-> raw.roomType,
     description |-> raw.text,
     date |-> raw.created,
     personId |-> raw.personId,
     raw |-> raw,
     gtype |-> NoVal,
     roomName |-> None,
     hiddenCount |-> None,
     displayName |-> None,
     roomAvatar |-> NoVal,
     initials |-> None]

\* lines 93-98 and 147-152: title of the first room with the message's room id
RECURSIVE RoomNameOf(_, _, _)
RoomNameOf(roomId, rs, k) ==
    IF k > Len(rs) THEN None
    ELSE IF roomId = rs[k].id THEN Some(rs[k].title)
    ELSE RoomNameOf(roomId, rs, k + 1)

\* mutant: hiddenCount counts from the item's position instead of from 3
TagMessageHiddenFromCount(item, count, total, rs) ==
    IF count = 1
    THEN [item EXCEPT !.gtype = "first", !.roomName = RoomNameOf(item.raw.roomId, rs, 1)]
    ELSE IF count = total - 1 \/ count = 3
         THEN [item EXCEPT !.gtype = "last", !.hiddenCount = Some(total - count - 1)]
         ELSE item

\* the switch of lines 87-106
TagMessage(item, count, total, rs) ==
    IF count = 1
    THEN [item EXCEPT !.gtype = "first", !.roomName = RoomNameOf(item.raw.roomId, rs, 1)]
    ELSE IF count = total - 1 \/ count = 3
         THEN [item EXCEPT !.gtype = "last", !.hiddenCount = Some(total - 3)]
         ELSE item

\* mutant: the loop does not stop after three items
RECURSIVE MessagesLoopUncapped(_, _, _, _)
MessagesLoopUncapped(fm, rs, j, c) ==
    IF j > Len(fm) THEN <<>>
    ELSE IF fm[j].text = <<>> THEN MessagesLoopUncapped(fm, rs, j + 1, c)
    ELSE <<TagMessage(constructItem(fm[j]), c + 1, Len(fm), rs)>>
         \o MessagesLoopUncapped(fm, rs, j + 1, c + 1)

\* the loop of lines 76-115 for one room, from index j with currentRoomMessages = c
RECURSIVE MessagesLoop(_, _, _, _)
MessagesLoop(fm, rs, j, c) ==
    IF ~(c < 3 /\ j <= Len(fm)) THEN <<>>
    ELSE IF fm[j].text = <<>> THEN MessagesLoop(fm, rs, j + 1, c)
    ELSE <<TagMessage(constructItem(fm[j]), c + 1, Len(fm), rs)>>
         \o MessagesLoop(fm, rs, j + 1, c + 1)

\* the switch of lines 141-158
TagMention(item, count, rs) ==
    IF count = 1
    THEN [item EXCEPT !.gtype = "first", !.roomName = RoomNameOf(item.raw.roomId, rs, 1)]
    ELSE IF count = Len(item.raw.mentionedPeople[1]) - 1 \/ count = 3
         THEN [item EXCEPT !.gtype = "last"]
         ELSE item

\* the loop of lines 131-168 finds a mention of the caller
MentionsMe(raw, meId) ==
    /\ raw.mentionedPeople # None
    /\ raw.text # <<>>
    /\ \E k \in 1..Len(raw.mentionedPeople[1]) : raw.mentionedPeople[1][k] = meId

\* the loop of lines 121-169 for one room, from index j with currentRoomMentions = c
RECURSIVE MentionsLoop(_, _, _, _, _)
MentionsLoop(fm, rs, meId, j, c) ==
    IF ~(c < 3 /\ j <= Len(fm)) THEN <<>>
    ELSE IF ~MentionsMe(fm[j], meId) THEN MentionsLoop(fm, rs, meId, j + 1, c)
    ELSE <<TagMention(constructItem(fm[j]), c + 1, rs)>>
         \o MentionsLoop(fm, rs, meId, j + 1, c + 1)

\* userPromises.has / userPromises.set over the authors of a list of items
RECURSIVE AddUsers(_, _, _)
AddUsers(keys, items, j) ==
    IF j > Len(items) THEN keys
    ELSE IF \E k \in 1..Len(keys) : keys[k] = items[j].personId
         THEN AddUsers(keys, items, j + 1)
         ELSE AddUsers(Append(keys, items[j].personId), items, j + 1)

\* the loop of lines 69-172 from room i on: the feed and the Map's keys
RECURSIVE BuildFrom(_, _, _, _, _, _)
BuildFrom(fms, rs, meId, i, feed, keys) ==
    IF i > Len(fms) THEN [feed |-> feed, keys |-> keys]
    ELSE LET msgs == MessagesLoop(fms[i], rs, 1, 0)
             ments == MentionsLoop(fms[i], rs, meId, 1, 0)
             next == [messages |-> [count |-> feed.messages.count + Len(fms[i]),
                                    items |-> feed.messages.items \o msgs],
                      mentions |-> [count |-> feed.mentions.count + Len(ments),
                                    items |-> feed.mentions.items \o ments]]
         IN BuildFrom(fms, rs, meId, i + 1, next, AddUsers(AddUsers(keys, msgs, 1), ments, 1))

Build(fms, rs, meId) == BuildFrom(fms, rs, meId, 1, EmptyFeed, <<>>)

\* ---------------------------------------------------------------- enrichment
CharAt0(w) == IF w = <<>> THEN <<>> ELSE <<w[1]>>

\* lines 255-266: first characters of at most two words, of one word for a group
Initials(names, title) ==
    IF title = "group" \/ Len(names) < 2 THEN CharAt0(names[1])
    ELSE CharAt0(names[1]) \o CharAt0(names[2])

\* lines 240-244
ExtendName(meBody, userBody, m) ==
    IF m.personId = meBody.id THEN [m EXCEPT !.displayName = Some(You)]
    ELSE IF m.personId = userBody.id THEN [m EXCEPT !.displayName = Some(userBody.displayName)]
    ELSE m

\* lines 247-268
ExtendAvatar(userBody, m) ==
    IF m.gtype # "first" THEN m
    ELSE LET a == IF m.title = "direct" /\ m.roomName = Some(userBody.displayName)
                  THEN [m EXCEPT !.roomAvatar = userBody.avatar]
                  ELSE m
         IN IF Falsy(a.roomAvatar)
            THEN [a EXCEPT !.initials = Some(Initials(a.roomName[1], a.title))]
            ELSE a

extendProperties(meBody, userBody, messages) ==
    [j \in 1..Len(messages) |-> ExtendAvatar(userBody, ExtendName(meBody, userBody, messages[j]))]

\* mutant: the loop returns at the first user that was not found
RECURSIVE ExtendAllStopAtError(_, _, _, _)
ExtendAllStopAtError(meBody, us, i, feed) ==
    IF i > Len(us) \/ isErrorResponse(us[i]) THEN feed
    ELSE ExtendAllStopAtError(meBody, us, i + 1,
            [feed EXCEPT !.messages.items = extendProperties(meBody, us[i].body, @),
                         !.mentions.items = extendProperties(meBody, us[i].body, @)])

\* the loop of lines 178-187 from user i on
RECURSIVE ExtendAll(_, _, _, _)
ExtendAll(meBody, us, i, feed) ==
    IF i > Len(us) THEN feed
    ELSE IF isErrorResponse(us[i]) THEN ExtendAll(meBody, us, i + 1, feed)
    ELSE ExtendAll(meBody, us, i + 1,
            [feed EXCEPT !.messages.items = extendProperties(meBody, us[i].body, @),
                         !.mentions.items = extendProperties(meBody, us[i].body, @)])

\* ---------------------------------------------------------------- mention styling
\* description.replace(new RegExp(match, 'g'), '<span class="blue">@match</span>')
ReplaceAll(description, name) ==
    [t \in 1..Len(description) |->
        IF description[t].word = name /\ ~description[t].styled
        THEN [description[t] EXCEPT !.styled = TRUE]
        ELSE description[t]]

\* the loop of lines 285-299; a name that was already seen is skipped
RECURSIVE StyleFrom(_, _, _)
StyleFrom(description, matches, k) ==
    IF k > Len(matches) THEN description
    ELSE IF \E q \in 1..(k - 1) : matches[q] = matches[k]
         THEN StyleFrom(description, matches, k + 1)
         ELSE StyleFrom(ReplaceAll(description, matches[k]), matches, k + 1)

matchMentions(messages) ==
    [j \in 1..Len(messages) |->
        IF messages[j].raw.html = None \/ messages[j].raw.html[1] = <<>> THEN messages[j]
        ELSE [messages[j] EXCEPT !.description = StyleFrom(@, messages[j].raw.html[1], 1)]]

\* lines 174-193
Finish(meBody, us, feed) ==
    LET e == ExtendAll(meBody, us, 1, feed)
    IN [messages |-> [count |-> e.messages.count, items |-> matchMentions(e.messages.items)],
        mentions |-> [count |-> e.mentions.count, items |-> matchMentions(e.mentions.items)]]

\* ---------------------------------------------------------------- server data
\* The data the Webex server holds when the handler runs.  Four families of
\* worlds, each varying what one stage of the handler reads.  Room ids are
\* the positions in the server's list, every message carries the id and the
\* type of its room.
RoomsOf(stamps) == [i \in 1..Len(stamps) |-> Room(i, "group", TitleTeam, stamps[i])]

\* rooms of any age in any order, one recent message each
WorldsSelect ==
    {[rooms |-> RoomsOf(stamps),
      msgs |-> [i \in 1..Len(stamps) |->
                   <<Msg(RoomsOf(stamps)[i], 1, Recent, "bob", None, TRUE)>>],
      clock |-> c] :
        stamps \in SeqsUpTo(1..MaxStamp, MaxRooms), c \in {StartClock, StartClock + 1}}

\* one recent room whose messages are of any age in any order
WorldsFilter ==
    {[rooms |-> RoomsOf(<<Recent>>),
      msgs |-> <<[j \in 1..Len(stamps) |->
                    Msg(RoomsOf(<<Recent>>)[1], j, stamps[j], "bob", None, TRUE)]>>,
      clock |-> c] :
        stamps \in SeqsUpTo(1..MaxStamp, MaxFilterLen), c \in {StartClock, StartClock + 1}}

\* what a message of the item-construction worlds looks like: without text
\* (files only), or with text and a list of mentioned people (none, the caller
\* twice, the caller after two others)
MsgShapes == {"file", "plain", "meTwice", "othersAndMe"}

MentionedOf(shape) ==
    CASE shape = "meTwice" -> Some(<<Caller, Caller>>)
      [] shape = "othersAndMe" -> Some(<<"bob", "carol", Caller>>)
      [] OTHER -> None

DirectBob == Room(2, "direct", NameBob, Recent)

\* a group room with any mix of recent messages, followed by a direct room
WorldsBuild ==
    {[rooms |-> <<Room(1, "group", TitleTeam, Recent), DirectBob>>,
      msgs |-> <<[j \in 1..Len(shapes) |->
                     Msg(Room(1, "group", TitleTeam, Recent), j, Recent, "bob",
                         MentionedOf(shapes[j]), shapes[j] # "file")],
                 <<Msg(DirectBob, 1, Recent, "bob", Some(<<Caller>>), TRUE),
                   Msg(DirectBob, 2, Recent, Caller, None, TRUE)>> >>,
      clock |-> StartClock] :
        shapes \in SeqsUpTo(MsgShapes, MaxMsgs)}

RoomKinds == {<<"direct", NameBob>>, <<"direct", NameCal>>, <<"group", TitleTeam>>}

\* a message of the enrichment worlds: its author and whether it mentions the caller
AuthorShapes == {<<Caller, FALSE>>, <<Caller, TRUE>>, <<"bob", FALSE>>, <<"bob", TRUE>>,
                 <<"carol", FALSE>>}

GroupTeam == Room(2, "group", TitleTeam, Recent)

\* a room of any kind with messages of any authors, followed by a group room
WorldsEnrich ==
    {[rooms |-> <<Room(1, kind[1], kind[2], Recent), GroupTeam>>,
      msgs |-> <<[j \in 1..Len(shapes) |->
                     Msg(Room(1, kind[1], kind[2], Recent), j, Recent, shapes[j][1],
                         IF shapes[j][2] THEN Some(<<Caller>>) ELSE None, TRUE)],
                 <<Msg(GroupTeam, 1, Recent, "carol", Some(<<Caller>>), TRUE)>> >>,
      clock |-> StartClock] :
        kind \in RoomKinds, shapes \in SeqsUpTo(AuthorShapes, MaxAuthoredMsgs)}

Worlds == WorldsSelect \cup WorldsFilter \cup WorldsBuild \cup WorldsEnrich

\* ---------------------------------------------------------------- the handler
Init ==
    /\ pc = "awaitRooms"
    /\ \E w \in Worlds :
        /\ srvRooms = w.rooms
        /\ srvMsgs = w.msgs
        /\ now = w.clock
    /\ roomsResponse = [statusCode |-> 0, body |-> <<>>]
    /\ rooms = <<>>
    /\ messagePromises = <<>>
    /\ messagesResponses = <<>>
    /\ filteredMessages = <<>>
    /\ me = NoResponse
    /\ data = EmptyFeed
    /\ userPromises = <<>>
    /\ users = <<>>
    /\ Data = None
    /\ ErrorCode = 0

\* an HTTP response: the body on success, an error status otherwise
Response(status, body, errorBody) ==
    [statusCode |-> status, body |-> IF status = 200 THEN body ELSE errorBody]

\* lines 10-35: GET /rooms answers
RoomsResolved ==
    /\ pc = "awaitRooms"
    /\ \E status \in {200, 500} :
        LET response == Response(status, srvRooms, <<>>)
            sorted == SortRooms(response.body)
        IN /\ roomsResponse' = response
           /\ IF isErrorResponse(response)
              THEN /\ pc' = "done"
                   /\ ErrorCode' = StatusOf(response)
                   /\ UNCHANGED <<rooms, messagePromises>>
              ELSE /\ pc' = "awaitMessages"
                   /\ rooms' = sorted
                   /\ messagePromises' = SelectRooms(sorted, 1, now)
                   /\ UNCHANGED ErrorCode
    /\ UNCHANGED <<now, srvRooms, srvMsgs, messagesResponses, filteredMessages, me,
                   data, userPromises, users, Data>>

\* GET /rooms throws
RoomsRejected ==
    /\ pc = "awaitRooms"
    /\ handleError
    /\ UNCHANGED <<now, srvRooms, srvMsgs, roomsResponse, rooms, messagePromises,
                   messagesResponses, filteredMessages, me, data, userPromises, users>>

\* lines 38-66: every GET /messages has answered
MessagesResolved ==
    /\ pc = "awaitMessages"
    /\ \E status \in [1..Len(messagePromises) -> {200, 404}] :
        LET responses == [i \in 1..Len(messagePromises) |->
                             Response(status[i], srvMsgs[messagePromises[i]], <<>>)]
            e == FirstError(responses, 1)
        IN /\ messagesResponses' = responses
           /\ filteredMessages' = FilterResponses(responses, now)
           /\ IF e # 0
              THEN /\ pc' = "done"
                   /\ ErrorCode' = StatusOf(responses[e])
              ELSE /\ pc' = "awaitMe"
                   /\ UNCHANGED ErrorCode
    /\ UNCHANGED <<now, srvRooms, srvMsgs, roomsResponse, rooms, messagePromises, me,
                   data, userPromises, users, Data>>

\* one of the GET /messages throws
MessagesRejected ==
    /\ pc = "awaitMessages"
    /\ Len(messagePromises) > 0
    /\ handleError
    /\ UNCHANGED <<now, srvRooms, srvMsgs, roomsResponse, rooms, messagePromises,
                   messagesResponses, filteredMessages, me, data, userPromises, users>>

\* lines 66-172: GET /people/me answers; the response is used unchecked
MeResolved ==
    /\ pc = "awaitMe"
    /\ \E status \in {200, 401} :
        LET response == Response(status, People[Caller], ErrorBody)
            built == Build(filteredMessages, rooms, response.body.id)
        IN /\ me' = response
           /\ data' = built.feed
           /\ userPromises' = built.keys
    /\ pc' = "awaitUsers"
    /\ UNCHANGED <<now, srvRooms, srvMsgs, roomsResponse, rooms, messagePromises,
                   messagesResponses, filteredMessages, users, Data, ErrorCode>>

\* GET /people/me throws
MeRejected ==
    /\ pc = "awaitMe"
    /\ handleError
    /\ UNCHANGED <<now, srvRooms, srvMsgs, roomsResponse, rooms, messagePromises,
                   messagesResponses, filteredMessages, me, data, userPromises, users>>

\* lines 175-196: every GET /people/<id> has answered
UsersResolved ==
    /\ pc = "awaitUsers"
    /\ \E status \in [1..Len(userPromises) -> {200, 404}] :
        LET responses == [i \in 1..Len(userPromises) |->
                             Response(status[i], People[userPromises[i]], ErrorBody)]
            feed == Finish(me.body, responses, data)
        IN /\ users' = responses
           /\ data' = feed
           /\ Data' = Some(feed)
    /\ ErrorCode' = 0
    /\ pc' = "done"
    /\ UNCHANGED <<now, srvRooms, srvMsgs, roomsResponse, rooms, messagePromises,
                   messagesResponses, filteredMessages, me, userPromises>>

\* one of the GET /people/<id> throws (a transport failure)
UsersRejected ==
    /\ pc = "awaitUsers"
    /\ Len(userPromises) > 0
    /\ handleError
    /\ UNCHANGED <<now, srvRooms, srvMsgs, roomsResponse, rooms, messagePromises,
                   messagesResponses, filteredMessages, me, data, userPromises, users>>

Next ==
    \/ RoomsResolved
    \/ RoomsRejected
    \/ MessagesResolved
    \/ MessagesRejected
    \/ MeResolved
    \/ MeRejected
    \/ UsersResolved
    \/ UsersRejected

Spec == Init /\ [][Next]_vars

\* ---------------------------------------------------------------- properties
Cutoff == now - Lookback
Times(s, x) == Cardinality({k \in 1..Len(s) : s[k] = x})
ItemsOf(items, r) == SelectSeq(items, LAMBDA m : m.raw.roomId = r)
Feed == Data[1]
BothLists == {Feed.messages.items, Feed.mentions.items}
Ok(response) == response.statusCode = 200
Failed(response) == response.statusCode \notin {0, 200}

\* C1: the feed is assigned only when the rooms fetch and every message fetch
\* succeeded; an error response of any of them leaves Response.Data unassigned,
\* wherever the successful fetches sit.
FailFast ==
    Data # None =>
        /\ Ok(roomsResponse)
        /\ Len(messagesResponses) = Len(messagePromises)
        /\ \A i \in 1..Len(messagesResponses) : Ok(messagesResponses[i])

FailFastWitness ==
    /\ pc = "done"
    /\ Data = None
    /\ Len(messagesResponses) = 3
    /\ Ok(messagesResponses[1])
    /\ Failed(messagesResponses[2])
    /\ Ok(messagesResponses[3])

\* C2: an error result of GET /people/me aborts the invocation: no feed is
\* assigned, and the invocation ends with a non-zero error code.
MeFailureAborts ==
    Failed(me) => Data = None /\ (pc = "done" => ErrorCode # 0)

\* the user-detail responses have been received and processed
UsersAnswered == pc = "done" /\ Ok(me) /\ Len(users) = Len(userPromises)

\* C3: whichever user-detail fetches return an error response, the invocation
\* ends with the feed assigned and error code 0, and every item of another
\* author than the caller whose fetch succeeded has that user's display name.
UserFailuresNonFatal ==
    UsersAnswered =>
        /\ Data = Some(data)
        /\ ErrorCode = 0
        /\ \A items \in BothLists : \A j \in 1..Len(items) : \A i \in 1..Len(users) :
              (/\ Ok(users[i])
               /\ items[j].personId = userPromises[i]
               /\ items[j].personId # me.body.id)
              => items[j].displayName = Some(People[userPromises[i]].displayName)

UserFailuresWitness ==
    /\ UsersAnswered
    /\ Len(users) = 3
    /\ Failed(users[1])
    /\ Ok(users[2])
    /\ userPromises[2] # Caller
    /\ Failed(users[3])
    /\ Data # None

\* C4: whatever the order of the room list, a room's messages are fetched
\* exactly once when its lastActivity is strictly newer than the cutoff and
\* not at all otherwise.
RoomSelection ==
    Ok(roomsResponse) =>
        \A k \in 1..Len(srvRooms) :
            Times(messagePromises, srvRooms[k].id)
                = IF srvRooms[k].lastActivity > Cutoff THEN 1 ELSE 0

RoomSelectionWitness ==
    /\ pc = "awaitMessages"
    /\ \E i, j, k \in 1..Len(srvRooms) :
        /\ i < j /\ j < k
        /\ srvRooms[i].lastActivity < Cutoff
        /\ srvRooms[j].lastActivity = Cutoff
        /\ srvRooms[k].lastActivity > Cutoff
        /\ messagePromises = <<srvRooms[k].id>>

\* C5: the recency filter keeps exactly the messages that are strictly newer
\* than the cutoff and preceded only by such messages, in input order.
RecencyPrefix ==
    \A i \in 1..Len(filteredMessages) :
        LET items == messagesResponses[i].body
            kept == {k \in 1..Len(items) :
                        \A j \in 1..k : items[j].created > Cutoff}
        IN /\ Len(filteredMessages[i]) = Cardinality(kept)
           /\ \A k \in kept : filteredMessages[i][k] = items[k]

RecencyPrefixWitness ==
    \E i \in 1..Len(filteredMessages) :
        LET items == messagesResponses[i].body
        IN /\ Len(items) = 3
           /\ items[1].created > Cutoff
           /\ items[2].created = Cutoff
           /\ items[3].created > Cutoff
           /\ filteredMessages[i] = <<items[1]>>

\* C6: no room contributes more than 3 items to messages.items nor more than
\* 3 items to mentions.items of the returned feed.
PerRoomCap ==
    Data # None =>
        \A items \in BothLists : \A k \in 1..Len(srvRooms) :
            Len(ItemsOf(items, srvRooms[k].id)) <= 3

PerRoomCapWitness ==
    /\ Data # None
    /\ \E i \in 1..Len(filteredMessages) :
        /\ Len(filteredMessages[i]) = 5
        /\ \A j \in 1..5 : filteredMessages[i][j].mentionedPeople = Some(<<Caller, Caller>>)
        /\ Len(ItemsOf(Feed.messages.items, messagePromises[i])) = 3
        /\ Len(ItemsOf(Feed.mentions.items, messagePromises[i])) = 3

\* C7: in each list, a room with n >= 2 items has its first item tagged
\* "first", its n-th item tagged "last" and no other item tagged "last".
FirstLastTagging ==
    Data # None =>
        \A items \in BothLists : \A k \in 1..Len(srvRooms) :
            LET its == ItemsOf(items, srvRooms[k].id)
                n == Len(its)
            IN n >= 2 =>
                /\ its[1].gtype = "first"
                /\ its[n].gtype = "last"
                /\ \A q \in 1..(n - 1) : its[q].gtype # "last"

\* C8: in messages.items only "last" items carry hiddenCount, and it equals
\* the number of filtered messages of the room minus 3; a room with 5 filtered
\* messages, all with text and none mentioning the caller, yields 3 items, the
\* third with hiddenCount 2, and no mention item.
HiddenCount ==
    Data # None =>
        \A i \in 1..Len(filteredMessages) :
            LET fm == filteredMessages[i]
                its == ItemsOf(Feed.messages.items, messagePromises[i])
            IN /\ \A q \in 1..Len(its) :
                    /\ its[q].hiddenCount # None => its[q].gtype = "last"
                    /\ its[q].gtype = "last" => its[q].hiddenCount = Some(Len(fm) - 3)
               /\ (/\ Len(fm) = 5
                   /\ \A j \in 1..5 : fm[j].text # <<>> /\ ~MentionsMe(fm[j], me.body.id))
                  => /\ Len(its) = 3
                     /\ its[3].hiddenCount = Some(2)
                     /\ ItemsOf(Feed.mentions.items, messagePromises[i]) = <<>>

HiddenCountWitness ==
    /\ Data # None
    /\ Ok(me)
    /\ \E i \in 1..Len(filteredMessages) :
        /\ Len(filteredMessages[i]) = 5
        /\ \A j \in 1..5 : /\ filteredMessages[i][j].text # <<>>
                           /\ filteredMessages[i][j].mentionedPeople = None
        /\ ItemsOf(Feed.messages.items, messagePromises[i])[3].hiddenCount = Some(2)

\* C9: every item of the returned feed whose author is the caller has the
\* display name "You".
CallerIsYou ==
    (Data # None /\ Ok(me)) =>
        \A items \in BothLists : \A j \in 1..Len(items) :
            items[j].personId = me.body.id => items[j].displayName = Some(You)

\* C10: a "first" item of a direct room named like a resolved user with an
\* avatar has that avatar as roomAvatar and no initials; initials are present
\* only on "first" items without a roomAvatar.
AvatarOrInitials ==
    Data # None =>
        \A items \in BothLists : \A j \in 1..Len(items) :
            /\ \A i \in 1..Len(users) :
                  (/\ Ok(users[i])
                   /\ ~Falsy(users[i].body.avatar)
                   /\ items[j].gtype = "first"
                   /\ items[j].title = "direct"
                   /\ items[j].roomName = Some(users[i].body.displayName))
                  => /\ items[j].roomAvatar = users[i].body.avatar
                     /\ items[j].initials = None
            /\ items[j].initials # None
                  => items[j].gtype = "first" /\ Falsy(items[j].roomAvatar)
====
